---- MODULE Spec2Model ----
(***************************************************************************)
(* The image routes of art-showcase-backend (src/routes/images.js) over    *)
(* the Image collection (src/models/Image.js) and the uploads/ directory.  *)
(*                                                                         *)
(* Every route handler is an async function: the code between two awaits   *)
(* runs without interruption on the event loop, and each awaited database  *)
(* call is one atomic operation of the database.  A handler is therefore   *)
(* one action per awaited call, together with the synchronous code that    *)
(* follows it.  fs.unlink is started with a callback and never awaited: it *)
(* completes in an action of its own, at any later time.                   *)
(*                                                                         *)
(* image.save() of a loaded document sends only the changes made to it:    *)
(* push on an array is sent as $push together with an increment of the     *)
(* version key __v, an assigned array is sent as $set under the condition  *)
(* that __v is still the one that was read, an assigned number is sent as  *)
(* $set, and a path assigned the value it already has is not sent.  save() *)
(* of a document that matches no stored record fails.                      *)
(***************************************************************************)
EXTENDS Integers, Sequences, FiniteSets, TLC

NumUsers == 2
MaxReq == 3
MaxUpload == 2
MaxFrame == 2
MaxTotal == 4
MaxPage == 3
MaxLimit == 3
MaxCount == 3

Users == 1..NumUsers
Slots == 1..MaxReq
\* The slots that uploads arrive in.
UploadSlots == {r \in Slots : r <= MaxUpload}

\* Every handler reads and writes only the record whose id the request names
\* (findById(req.params.id)); the model follows the requests that name one
\* stored record, X, and the records uploads would add.
X == <<"image", 0>>
Images == {X}

\* The _id of the document the upload handled in slot r makes (new Image).
NewId(r) == <<"image", r>>

\* The k-th record of a gallery the feeds are read from.
Posted(k) == <<"image", MaxReq + k>>
Gallery(total) == {Posted(k) : k \in 1..total}

AllImages == Images \cup {NewId(r) : r \in Slots} \cup Gallery(MaxTotal)

\* `/uploads/${req.file.filename}`
ImageUrl(filename) == <<"/uploads", filename>>

\* path.join(__dirname, '..', image.imageUrl): the file in uploads/ that an
\* imageUrl names.
FilePath(imageUrl) == imageUrl[2]

\* The artist of a record present at the start.
Owner(i) == 1

\* User.username of user u (no route changes it).
Username(u) == <<"user", u>>

VARIABLES images, files, reqs

vars == <<images, files, reqs>>

\* No record: what findById yields for an id that is not stored.  A path
\* that is not set is "" (title, cloudinaryId), 0 (artist) or <<>>.
NoImage ==
  [exists |-> FALSE, title |-> "", imageUrl |-> <<>>, cloudinaryId |-> "",
   artist |-> 0, artistUsername |-> <<>>, likes |-> <<>>, likesCount |-> 0,
   views |-> 0, createdAt |-> 0, v |-> 0]

\* A stored record as the schema's defaults leave it: no like, no view.
StoredImage(i) ==
  [exists |-> TRUE, title |-> "t", imageUrl |-> ImageUrl(i), cloudinaryId |-> "c",
   artist |-> Owner(i), artistUsername |-> Username(Owner(i)),
   likes |-> <<>>, likesCount |-> 0, views |-> 0, createdAt |-> 1, v |-> 0]

\* The k-th record of the gallery: the records are numbered oldest first,
\* createdAt is a time in milliseconds that two records can share, and the
\* users take turns as the artist.
GalleryImage(k) ==
  [StoredImage(Posted(k)) EXCEPT
     !.artist = ((k - 1) % NumUsers) + 1,
     !.artistUsername = Username(((k - 1) % NumUsers) + 1),
     !.createdAt = (k + 1) \div 2]

\* No file part in the request (req.file is undefined).
NoFile == [ext |-> <<>>, mimetype |-> <<>>, size |-> 0]

\* A slot no request has used yet.
Idle ==
  [op |-> "none", pc |-> "idle", img |-> <<>>, user |-> 0, file |-> NoFile,
   hasFile |-> FALSE, title |-> "", doc |-> NoImage, mod |-> {}, status |-> 0,
   error |-> "", body |-> 0, unlink |-> "none", path |-> <<>>,
   page |-> 0, limit |-> 0, count |-> 0, username |-> <<>>, result |-> <<>>,
   total |-> 0, totalPages |-> 0, liked |-> FALSE]

\* The handlers that only read leave nothing behind but their response:
\* FeedSlot holds the last such request, one at a time, and its response.
FeedSlot == 0

Init ==
  /\ images = [i \in AllImages |-> IF i \in Images THEN StoredImage(i) ELSE NoImage]
  /\ files = {FilePath(StoredImage(i).imageUrl) : i \in Images}
  /\ reqs = [r \in Slots \cup {FeedSlot} |-> Idle]

\* A gallery of total records and no request yet.
InitFeed ==
  \E total \in 0..MaxTotal :
    /\ images = [i \in AllImages |->
                   IF \E k \in 1..total : i = Posted(k)
                   THEN GalleryImage(CHOOSE k \in 1..total : i = Posted(k))
                   ELSE NoImage]
    /\ files = {FilePath(ImageUrl(i)) : i \in Gallery(total)}
    /\ reqs = [r \in Slots \cup {FeedSlot} |-> Idle]

----------------------------------------------------------------------------
\* Helpers

RECURSIVE Filter(_, _)
\* likes.filter(like => like.toString() !== userId.toString())
Filter(s, u) ==
  IF s = <<>> THEN <<>>
  ELSE IF Head(s) = u THEN Filter(Tail(s), u)
       ELSE <<Head(s)>> \o Filter(Tail(s), u)

\* alreadyLiked looking at the first like only.
alreadyLikedFirst(image, userId) ==
  Len(image.likes) > 0 /\ image.likes[1] = userId

\* image.likes.some(like => like.toString() === req.userId.toString())
alreadyLiked(image, userId) == \E k \in 1..Len(image.likes) : image.likes[k] = userId

findById(id) == images[id]

\* The request q answered: its handler has returned and its document is dropped.
Respond(q, status, body) ==
  [q EXCEPT !.pc = "done", !.status = status, !.body = body,
            !.doc = NoImage, !.mod = {}]

\* The condition of the update save() sends: the record is stored, and, when
\* an array was assigned, its version is still the one the document was read at.
SaveMatches(cur, doc, mod) ==
  /\ cur.exists
  /\ ("likes" \in mod => cur.v = doc.v)

\* save() writing back the whole document as the handler holds it.
SaveUpdateWhole(cur, doc, mod, pushed) ==
  [doc EXCEPT !.likes = IF "$push" \in mod THEN cur.likes \o pushed ELSE @,
              !.v = IF mod \cap {"likes", "$push"} # {} THEN cur.v + 1 ELSE cur.v]

\* The update save() sends, applied to the stored record cur.
SaveUpdate(cur, doc, mod, pushed) ==
  [cur EXCEPT
     !.likes = IF "likes" \in mod THEN doc.likes
               ELSE IF "$push" \in mod THEN cur.likes \o pushed
               ELSE @,
     !.likesCount = IF "likesCount" \in mod THEN doc.likesCount ELSE @,
     !.views = IF "views" \in mod THEN doc.views ELSE @,
     !.v = IF mod \cap {"likes", "$push"} # {} THEN @ + 1 ELSE @]

\* Requests are numbered in the order their handlers start.
CanStart(r) ==
  /\ reqs[r].pc = "idle"
  /\ \A s \in Slots : s < r => reqs[s].pc # "idle"

InFlight(r) == reqs[r].pc \notin {"idle", "done"}

\* The request of slot r as its handler starts.
Begin(op, id, u) == [Idle EXCEPT !.op = op, !.img = id, !.user = u]

\* A handler that goes on to its next await with the document doc in hand.
Await(q, pc, doc, mod) == [q EXCEPT !.pc = pc, !.doc = doc, !.mod = mod]

\* Save writing the whole document back, inserting it when it is not stored.
SaveUpsert(r, pushed) ==
  /\ images' = [images EXCEPT ![reqs[r].img] = reqs[r].doc]
  /\ reqs' = [reqs EXCEPT ![r] = Respond(@, 200, 0)]

\* await image.save() and the response that follows it: res.json with the
\* likesCount of the document (the body of a detail fetch is left out), or 500.
Save(r, pushed) ==
  LET q == reqs[r]
      cur == images[q.img] IN
  IF SaveMatches(cur, q.doc, q.mod)
  THEN /\ images' = [images EXCEPT ![q.img] = SaveUpdate(cur, q.doc, q.mod, pushed)]
       /\ reqs' = [reqs EXCEPT ![r] = Respond(@, 200,
                     IF q.op = "view" THEN 0 ELSE q.doc.likesCount)]
  ELSE /\ images' = images
       /\ reqs' = [reqs EXCEPT ![r] = Respond(@, 500, 0)]

----------------------------------------------------------------------------
\* GET /:id

\* ViewedDoc with the increment left out.
ViewedDocSame(image) == image

ViewedDoc(image) == [image EXCEPT !.views = @ + 1]

\* The handler up to await image.save().
View(r, id) ==
  /\ CanStart(r)
  /\ LET image == findById(id)
         q == Begin("view", id, 0) IN
       reqs' = [reqs EXCEPT ![r] =
                  IF ~image.exists THEN Respond(q, 404, 0)
                  ELSE Await(q, "save", ViewedDoc(image), {"views"})]
  /\ UNCHANGED <<images, files>>

ViewSave(r) ==
  /\ reqs[r].op = "view" /\ reqs[r].pc = "save"
  /\ Save(r, <<>>)
  /\ UNCHANGED files

----------------------------------------------------------------------------
\* POST /:id/like

\* LikedDoc with likesCount not recomputed after the push.
LikedDocStaleCount(image, userId) == [image EXCEPT !.likes = Append(@, userId)]

LikedDoc(image, userId) ==
  [image EXCEPT !.likes = Append(@, userId), !.likesCount = Len(image.likes) + 1]

\* likesCount is sent by save() when the value assigned differs from the one read.
ChangedCount(image, doc) ==
  IF doc.likesCount # image.likesCount THEN {"likesCount"} ELSE {}

\* The handler up to await image.save().
Like(r, id, u) ==
  /\ CanStart(r)
  /\ LET image == findById(id)
         q == Begin("like", id, u) IN
       reqs' = [reqs EXCEPT ![r] =
                  IF ~image.exists THEN Respond(q, 404, 0)
                  ELSE IF alreadyLiked(image, u) THEN Respond(q, 400, 0)
                  ELSE Await(q, "save", LikedDoc(image, u),
                             {"$push"} \cup ChangedCount(image, LikedDoc(image, u)))]
  /\ UNCHANGED <<images, files>>

LikeSave(r) ==
  /\ reqs[r].op = "like" /\ reqs[r].pc = "save"
  /\ Save(r, <<reqs[r].user>>)
  /\ UNCHANGED files

----------------------------------------------------------------------------
\* DELETE /:id/like

UnlikedDoc(image, userId) ==
  [image EXCEPT !.likes = Filter(@, userId),
                !.likesCount = Len(Filter(image.likes, userId))]

\* likes is sent by save() when the array assigned differs from the one read.
ChangedLikes(image, doc) ==
  IF doc.likes # image.likes THEN {"likes"} ELSE {}

\* The handler up to await image.save().
Unlike(r, id, u) ==
  /\ CanStart(r)
  /\ LET image == findById(id)
         doc == UnlikedDoc(image, u)
         q == Begin("unlike", id, u) IN
       reqs' = [reqs EXCEPT ![r] =
                  IF ~image.exists THEN Respond(q, 404, 0)
                  ELSE Await(q, "save", doc,
                             ChangedLikes(image, doc) \cup ChangedCount(image, doc))]
  /\ UNCHANGED <<images, files>>

UnlikeSave(r) ==
  /\ reqs[r].op = "unlike" /\ reqs[r].pc = "save"
  /\ Save(r, <<>>)
  /\ UNCHANGED files

----------------------------------------------------------------------------
\* DELETE /:id

\* NotOwner comparing the artist with itself.
NotOwnerSelf(image, userId) == image.artist # image.artist

\* image.artist.toString() !== req.userId.toString()
NotOwner(image, userId) == image.artist # userId

\* The handler up to await image.deleteOne(): fs.unlink is started on the way.
Delete(r, id, u) ==
  /\ CanStart(r)
  /\ LET image == findById(id)
         q == Begin("delete", id, u) IN
       reqs' = [reqs EXCEPT ![r] =
                  IF ~image.exists THEN Respond(q, 404, 0)
                  ELSE IF NotOwner(image, u) THEN Respond(q, 403, 0)
                  ELSE [Await(q, "deleteOne", image, {}) EXCEPT
                          !.unlink = "pending", !.path = FilePath(image.imageUrl)]]
  /\ UNCHANGED <<images, files>>

\* DeleteOne giving up with 500 when removing the file has failed.
DeleteOneUnlinked(r) ==
  /\ reqs[r].op = "delete" /\ reqs[r].pc = "deleteOne"
  /\ IF reqs[r].unlink = "error"
     THEN /\ images' = images
          /\ reqs' = [reqs EXCEPT ![r] = Respond(@, 500, 0)]
     ELSE /\ images' = [images EXCEPT ![reqs[r].img] = NoImage]
          /\ reqs' = [reqs EXCEPT ![r] = Respond(@, 200, 0)]
  /\ UNCHANGED files

\* await image.deleteOne() and the response that follows it.
DeleteOne(r) ==
  /\ reqs[r].op = "delete" /\ reqs[r].pc = "deleteOne"
  /\ images' = [images EXCEPT ![reqs[r].img] = NoImage]
  /\ reqs' = [reqs EXCEPT ![r] = Respond(@, 200, 0)]
  /\ UNCHANGED files

\* fs.unlink started by a handler completes: the file is removed, or the call
\* fails (ENOENT when there is no such file, another error otherwise).
Unlink(r) ==
  /\ reqs[r].unlink = "pending"
  /\ IF reqs[r].path \in files
     THEN \E ok \in BOOLEAN :
            /\ files' = IF ok THEN files \ {reqs[r].path} ELSE files
            /\ reqs' = [reqs EXCEPT ![r].unlink = IF ok THEN "removed" ELSE "error"]
     ELSE /\ files' = files
          /\ reqs' = [reqs EXCEPT ![r].unlink = "ENOENT"]
  /\ UNCHANGED images

----------------------------------------------------------------------------
\* POST /upload

Titles == {"", " ", "t"}

\* trim: true of imageSchema.title
Trim(title) == IF title = " " THEN "" ELSE title

\* A string is the sequence of its pieces, cut so that a word of allowedTypes
\* occurs in it only as a whole piece: ".jpgx" is <<".", "jpg", "x">>.
\* file.originalname is given by its extension, path.extname(file.originalname).
Exts == {<<".", "jpg">>, <<".", "JPG">>, <<".", "exe">>, <<".", "jpg", "x">>}
Mimetypes == {<<"image/", "png">>, <<"application/octet-stream">>,
              <<"application/x-", "png">>}

\* limits: { fileSize: 10 * 1024 * 1024 }
fileSize == 10 * 1024 * 1024
Sizes == {1, fileSize + 1}

\* The files a request can carry.
FileInputs == [ext : Exts, mimetype : Mimetypes, size : Sizes]

\* const allowedTypes = /jpeg|jpg|png|gif|webp/
allowedTypes == {"jpeg", "jpg", "png", "gif", "webp"}

\* allowedTypes.test(s): the pattern has no anchors, so it matches when one of
\* its words occurs anywhere in s.
Test(s) == \E k \in 1..Len(s) : s[k] \in allowedTypes

\* s.toLowerCase()
toLowerCase(s) == [k \in 1..Len(s) |-> IF s[k] = "JPG" THEN "jpg" ELSE s[k]]

fileFilter(file) ==
  LET extname == Test(toLowerCase(file.ext))
      mimetype == Test(file.mimetype) IN
  mimetype /\ extname

\* Date.now() + '-' + Math.round(Math.random() * 1E9): the clock and the
\* draw can be the same for two uploads.
Suffixes == 1..MaxUpload

\* storage.filename: file.fieldname + '-' + uniqueSuffix + ext, for the
\* field 'image'.
filename(uniqueSuffix, file) == <<"image", uniqueSuffix, file.ext>>

\* upload.single('image'): a file that fileFilter refuses ends the request
\* with multer's error before anything is written.  A file that passes is
\* written to uploads/ under the name storage.filename gives it, over a file
\* of that name if there is one.  When it grows past limits.fileSize the
\* request stays in multer, which has the file removed (MulterRemove);
\* otherwise the handler runs.
Upload(r, u, file, title, uniqueSuffix) ==
  LET q == [Begin("upload", NewId(r), u) EXCEPT !.file = file, !.title = title] IN
  /\ CanStart(r)
  /\ IF file = NoFile
     THEN /\ files' = files
          /\ reqs' = [reqs EXCEPT ![r] = [q EXCEPT !.pc = "handler"]]
     ELSE IF ~fileFilter(file)
     THEN /\ files' = files
          /\ reqs' = [reqs EXCEPT ![r] =
                        [Respond(q, 500, 0) EXCEPT !.error = "InvalidFileType"]]
     ELSE IF file.size > fileSize
     THEN /\ files' = files \cup {filename(uniqueSuffix, file)}
          /\ reqs' = [reqs EXCEPT ![r] =
                        [q EXCEPT !.pc = "multer", !.path = filename(uniqueSuffix, file)]]
     ELSE /\ files' = files \cup {filename(uniqueSuffix, file)}
          /\ reqs' = [reqs EXCEPT ![r] =
                        [q EXCEPT !.pc = "handler", !.hasFile = TRUE,
                                  !.path = filename(uniqueSuffix, file)]]
  /\ UNCHANGED images

\* multer's removal of a file that grew past limits.fileSize completes (the
\* file is removed, or fs.unlink fails), and the request is ended with
\* multer's error; the handler never runs.
MulterRemove(r) ==
  /\ reqs[r].op = "upload" /\ reqs[r].pc = "multer"
  /\ IF reqs[r].path \in files
     THEN \E ok \in BOOLEAN :
            /\ files' = IF ok THEN files \ {reqs[r].path} ELSE files
            /\ reqs' = [reqs EXCEPT ![r] =
                          [Respond(@, 500, 0) EXCEPT
                             !.error = "LIMIT_FILE_SIZE",
                             !.unlink = IF ok THEN "removed" ELSE "error"]]
     ELSE /\ files' = files
          /\ reqs' = [reqs EXCEPT ![r] =
                        [Respond(@, 500, 0) EXCEPT !.error = "LIMIT_FILE_SIZE",
                                                   !.unlink = "ENOENT"]]
  /\ UNCHANGED images

\* new Image({...}): the handler sets title, imageUrl, artist, artistUsername
\* (and paths the model leaves out) and gives no cloudinaryId; filename is no
\* path of the schema.
NewImage(q) ==
  [exists |-> TRUE, title |-> Trim(q.title), imageUrl |-> ImageUrl(q.path),
   cloudinaryId |-> "", artist |-> q.user, artistUsername |-> Username(q.user),
   likes |-> <<>>, likesCount |-> 0, views |-> 0, createdAt |-> 1, v |-> 0]

\* The required paths of imageSchema, validated before the document is saved.
Valid(doc) ==
  /\ doc.title # ""
  /\ doc.imageUrl # <<>>
  /\ doc.cloudinaryId # ""
  /\ doc.artist # 0
  /\ doc.artistUsername # <<>>

\* imageSchema.pre('save') of a new document.
PreSave(doc) ==
  IF doc.artist \in Users THEN [doc EXCEPT !.artistUsername = Username(doc.artist)]
  ELSE doc

\* The handler: 400 without a file; else await image.save() of the new
\* document and 201, or the catch block: fs.unlink is started and 500 is sent.
UploadHandler(r) ==
  /\ reqs[r].op = "upload" /\ reqs[r].pc = "handler"
  /\ IF ~reqs[r].hasFile
     THEN /\ reqs' = [reqs EXCEPT ![r] = Respond(@, 400, 0)]
          /\ images' = images
     ELSE IF Valid(NewImage(reqs[r]))
     THEN /\ images' = [images EXCEPT ![reqs[r].img] = PreSave(NewImage(reqs[r]))]
          /\ reqs' = [reqs EXCEPT ![r] = Respond(@, 201, 0)]
     ELSE /\ images' = images
          /\ reqs' = [reqs EXCEPT ![r] =
                        [Respond(@, 500, 0) EXCEPT !.unlink = "pending",
                                                   !.error = "ValidationError"]]
  /\ UNCHANGED files

----------------------------------------------------------------------------
\* The routes that only read

DefaultCount == 20
DefaultPage == 1
DefaultLimit == 20

\* Image.find() / countDocuments() / the input of the aggregate: the records
\* of the collection.
Stored == {i \in DOMAIN images : images[i].exists}

Min(a, b) == IF a <= b THEN a ELSE b

\* The lists of n different records of S.
Arrangements(S, n) ==
  {f \in [1..n -> S] : \A j, k \in 1..n : j # k => f[j] # f[k]}

\* .sort({ createdAt: -1 }) of the records S: newest first, records of one
\* createdAt in the order the database finds them.
sort(S) ==
  {f \in Arrangements(S, Cardinality(S)) :
     \A j, k \in 1..Cardinality(S) :
       j < k => images[f[j]].createdAt >= images[f[k]].createdAt}

\* parseInt(value) || byDefault.  A query value is given by the number
\* parseInt makes of it, an absent or non-numeric one (NaN) by 0: both NaN
\* and 0 are falsy.
parseIntOr(value, byDefault) == IF value = 0 THEN byDefault ELSE value

\* skip taken a whole page too far.
skipNext(page, limit) == page * limit

\* const skip = (page - 1) * limit
skip(page, limit) == (page - 1) * limit

\* .skip(n).limit(m) of the list s.
SkipLimit(s, n, m) == SubSeq(s, n + 1, Min(Len(s), n + m))

\* Math.ceil(a / b) of a natural a and a positive b.
ceil(a, b) == (a + b - 1) \div b

\* The request of the feed slot answered with 200.
Read(op) == Respond(Begin(op, <<>>, 0), 200, 0)

\* No read is between its two database calls.
CanRead == ~InFlight(FeedSlot)

\* Image.find().sort({ createdAt: -1 }).skip(skip).limit(limit) as the
\* database serves it: the pages it can yield.
find(page, limit) ==
  {SkipLimit(s, skip(page, limit), limit) : s \in sort(Stored)}

\* Image.countDocuments() as the database serves it.
countDocuments == Cardinality(Stored)

\* res.json({ images, total, page, totalPages }) of the page request q; the
\* body kept is the page of the response.
PageResponse(q) ==
  LET page == parseIntOr(q.page, DefaultPage)
      limit == parseIntOr(q.limit, DefaultLimit) IN
  [Respond(q, 200, page) EXCEPT !.totalPages = ceil(q.total, limit)]

\* GET /: the handler starts find and countDocuments together and awaits
\* both (Promise.all); the database serves them one at a time, in either
\* order, and steps of other requests can come between the two.  Here the
\* request arrives and the first of its two calls is served.
Page(pageQuery, limitQuery) ==
  LET page == parseIntOr(pageQuery, DefaultPage)
      limit == parseIntOr(limitQuery, DefaultLimit)
      q == [Begin("page", <<>>, 0) EXCEPT !.page = pageQuery, !.limit = limitQuery] IN
  /\ CanRead
  /\ \/ \E images_ \in find(page, limit) :
          reqs' = [reqs EXCEPT ![FeedSlot] =
                     [q EXCEPT !.pc = "countDocuments", !.result = images_]]
     \/ reqs' = [reqs EXCEPT ![FeedSlot] =
                    [q EXCEPT !.pc = "find", !.total = countDocuments]]
  /\ UNCHANGED <<images, files>>

\* find is served after countDocuments, and the response is sent.
PageFind ==
  LET q == reqs[FeedSlot] IN
  /\ q.op = "page" /\ q.pc = "find"
  /\ \E images_ \in find(parseIntOr(q.page, DefaultPage),
                         parseIntOr(q.limit, DefaultLimit)) :
       reqs' = [reqs EXCEPT ![FeedSlot] = PageResponse([q EXCEPT !.result = images_])]
  /\ UNCHANGED <<images, files>>

\* countDocuments is served after find, and the response is sent.
PageCount ==
  LET q == reqs[FeedSlot] IN
  /\ q.op = "page" /\ q.pc = "countDocuments"
  /\ reqs' = [reqs EXCEPT ![FeedSlot] = PageResponse([q EXCEPT !.total = countDocuments])]
  /\ UNCHANGED <<images, files>>

\* const count = parseInt(req.query.count) || 20
count(countQuery) == parseIntOr(countQuery, DefaultCount)

RECURSIVE unwind(_)
\* $lookup of the artist among the users and $unwind of the outcome: a record
\* whose artist is no user is dropped.
unwind(s) ==
  IF s = <<>> THEN <<>>
  ELSE IF images[Head(s)].artist \in Users THEN <<Head(s)>> \o unwind(Tail(s))
       ELSE unwind(Tail(s))

\* GET /random: $sample picks size different records, all of them when there
\* are no more than size, in any order.
Random(countQuery) ==
  /\ CanRead
  /\ \E s \in Arrangements(Stored, Min(count(countQuery), Cardinality(Stored))) :
       reqs' = [reqs EXCEPT ![FeedSlot] =
                  [Read("random") EXCEPT !.count = countQuery,
                                         !.result = unwind(s)]]
  /\ UNCHANGED <<images, files>>

\* GET /user/:username: the records of one artistUsername, newest first.
UserFeed(username) ==
  /\ CanRead
  /\ \E s \in sort({i \in Stored : images[i].artistUsername = username}) :
       reqs' = [reqs EXCEPT ![FeedSlot] =
                  [Read("user") EXCEPT !.username = username, !.result = s]]
  /\ UNCHANGED <<images, files>>

\* GET /:id/liked: 404, or whether the user is among the likes.
IsLiked(id, u) ==
  LET image == findById(id)
      q == Begin("liked", id, u) IN
  /\ CanRead
  /\ reqs' = [reqs EXCEPT ![FeedSlot] =
                IF ~image.exists THEN Respond(q, 404, 0)
                ELSE [Respond(q, 200, 0) EXCEPT
                        !.liked = \E k \in 1..Len(image.likes) : image.likes[k] = u]]
  /\ UNCHANGED <<images, files>>

----------------------------------------------------------------------------
\* Specifications

\* No handler is between two of its awaits.
Quiet == \A s \in Slots : ~InFlight(s)

\* A request on X arrives and its handler runs up to its first await.
Arrive(r) ==
  \/ \E id \in Images : View(r, id)
  \/ \E id \in Images, u \in Users : Like(r, id, u)
  \/ \E id \in Images, u \in Users : Unlike(r, id, u)
  \/ \E id \in Images, u \in Users : Delete(r, id, u)

\* An awaited call, or an fs.unlink, completes.
Complete(r) ==
  \/ ViewSave(r)
  \/ LikeSave(r)
  \/ UnlikeSave(r)
  \/ DeleteOne(r)
  \/ Unlink(r)

\* Requests on stored records, handled concurrently.
Next == \E r \in Slots : Arrive(r) \/ Complete(r)

Spec == Init /\ [][Next]_vars

\* The same requests, each answered before the next one arrives.
NextSeq ==
  \E r \in Slots :
    \/ Quiet /\ \E id \in Images : View(r, id)
    \/ Quiet /\ \E id \in Images, u \in Users : Like(r, id, u)
    \/ Quiet /\ \E id \in Images, u \in Users : Unlike(r, id, u)
    \/ Quiet /\ \E id \in Images, u \in Users : Delete(r, id, u)
    \/ Complete(r)

SpecSeq == Init /\ [][NextSeq]_vars

\* Uploads, handled concurrently.
NextUpload ==
  \E r \in UploadSlots :
    \/ \E u \in Users, file \in FileInputs \cup {NoFile}, title \in Titles,
          uniqueSuffix \in Suffixes :
         Upload(r, u, file, title, uniqueSuffix)
    \/ MulterRemove(r)
    \/ UploadHandler(r)
    \/ Unlink(r)

SpecUpload == Init /\ [][NextUpload]_vars

\* The feeds read from a gallery no request changes.
NextFeed ==
  \/ \E pageQuery \in 0..MaxPage, limitQuery \in 0..MaxLimit :
       Page(pageQuery, limitQuery)
  \/ PageFind
  \/ PageCount
  \/ \E countQuery \in 0..MaxCount : Random(countQuery)
  \/ \E u \in Users : UserFeed(Username(u))

SpecFeed == InitFeed /\ [][NextFeed]_vars

\* The slots that requests on X arrive in beside the reads.
FrameSlots == {r \in Slots : r <= MaxFrame}

\* Likes, unlikes and detail fetches of X, handled concurrently, and the
\* reads between their steps: GET / and GET /random without a query, the feed
\* of every user and /:id/liked for every user.
NextFrame ==
  \/ \E r \in FrameSlots :
       \/ \E id \in Images : View(r, id)
       \/ \E id \in Images, u \in Users : Like(r, id, u)
       \/ \E id \in Images, u \in Users : Unlike(r, id, u)
       \/ ViewSave(r)
       \/ LikeSave(r)
       \/ UnlikeSave(r)
  \/ \E id \in Images, u \in Users : IsLiked(id, u)
  \/ Page(0, 0)
  \/ PageFind
  \/ PageCount
  \/ Random(0)
  \/ \E u \in Users : UserFeed(Username(u))

SpecFrame == Init /\ [][NextFrame]_vars

----------------------------------------------------------------------------
\* Properties

\* The liker set of the stored record i.
Likers(i) == {images[i].likes[k] : k \in 1..Len(images[i].likes)}

\* The requests of kind op on i that were answered with status.
Answered(op, i, status) ==
  {r \in Slots : /\ reqs[r].op = op /\ reqs[r].img = i
                 /\ reqs[r].pc = "done" /\ reqs[r].status = status}

\* The requests of kind op on i that arrived, answered or not.
Arrived(op, i) == {r \in Slots : reqs[r].op = op /\ reqs[r].img = i}

\* C1: with every Like and Unlike answered before the next request arrives,
\* the likesCount of every stored image equals the length of its likes list.
C1_CountIsLikes ==
  \A i \in AllImages : images[i].likesCount = Len(images[i].likes)

\* Two users liked X, one of them unliked it, and one like is left.
C1_Witness ==
  /\ \E l \in Answered("like", X, 200), r \in Answered("unlike", X, 200) :
        reqs[l].user = reqs[r].user /\ l < r /\ reqs[r].user \notin Likers(X)
  /\ images[X].likesCount = 1

\* C2: two Like requests on X by different users, the only requests that have
\* touched the likes of X, are both answered 200, both users are likers of X
\* and likesCount is the count before them plus 2.
C2_ConcurrentLikes ==
  \A r1, r2 \in Slots :
    ( /\ r1 # r2
      /\ reqs[r1].op = "like" /\ reqs[r2].op = "like"
      /\ reqs[r1].img = X /\ reqs[r2].img = X
      /\ reqs[r1].user # reqs[r2].user
      /\ reqs[r1].pc = "done" /\ reqs[r2].pc = "done"
      /\ Arrived("like", X) = {r1, r2}
      /\ Arrived("unlike", X) = {} /\ Arrived("delete", X) = {} )
    => /\ reqs[r1].status = 200 /\ reqs[r2].status = 200
       /\ {reqs[r1].user, reqs[r2].user} \subseteq Likers(X)
       /\ images[X].likesCount = StoredImage(X).likesCount + 2

\* C3: a Like by a user who is in the liker set of the stored image is answered
\* 400 at once and changes no record.
C3_AlreadyLiked ==
  [][\A r \in Slots :
       ( /\ reqs[r].pc = "idle" /\ reqs'[r].op = "like"
         /\ images[reqs'[r].img].exists
         /\ reqs'[r].user \in Likers(reqs'[r].img) )
       => /\ reqs'[r].pc = "done" /\ reqs'[r].status = 400
          /\ images' = images]_vars

\* A like was refused with 400 and the liker is in the list once.
C3_Witness ==
  /\ Answered("like", X, 400) # {}
  /\ \E r \in Answered("like", X, 400) : images[X].likes = <<reqs[r].user>>

\* C4: an Unlike by a user who is not in the liker set of the stored image is
\* not refused, is answered 200 with the stored likesCount, and changes no
\* record.
C4_UnlikeNonMember ==
  [][\A r \in Slots :
       /\ ( /\ reqs[r].pc = "idle" /\ reqs'[r].op = "unlike"
            /\ images[reqs'[r].img].exists
            /\ reqs'[r].user \notin Likers(reqs'[r].img) )
          => reqs'[r].pc = "save" /\ images' = images
       /\ ( /\ reqs[r].op = "unlike" /\ reqs[r].pc = "save" /\ reqs'[r].pc = "done"
            /\ images[reqs[r].img].exists
            /\ reqs[r].user \notin Likers(reqs[r].img) )
          => /\ reqs'[r].status = 200
             /\ reqs'[r].body = images[reqs[r].img].likesCount
             /\ images' = images]_vars

\* C5: with each detail fetch answered before the next request arrives, the
\* view counter of a stored image is its first value plus the number of
\* fetches answered 200.
C5_ViewsCounted ==
  \A i \in Images :
    images[i].exists =>
      images[i].views = StoredImage(i).views + Cardinality(Answered("view", i, 200))

\* Every slot held a detail fetch of X, all answered.
C5_Witness ==
  /\ Cardinality(Answered("view", X, 200)) = MaxReq
  /\ images[X].views = MaxReq

\* C6: once every detail fetch of a stored image that arrived is answered, the
\* view counter is its first value plus the number of fetches answered 200.
C6_NoLostView ==
  \A i \in Images :
    (images[i].exists /\ \A r \in Arrived("view", i) : reqs[r].pc = "done")
    => images[i].views = StoredImage(i).views + Cardinality(Answered("view", i, 200))

\* C7: a Delete by a user who is not the artist of the stored image is
\* answered 403 at once; no record and no file changes and no unlink is started.
C7_ForbiddenDelete ==
  [][\A r \in Slots :
       ( /\ reqs[r].pc = "idle" /\ reqs'[r].op = "delete"
         /\ images[reqs'[r].img].exists
         /\ images[reqs'[r].img].artist # reqs'[r].user )
       => /\ reqs'[r].pc = "done" /\ reqs'[r].status = 403
          /\ reqs'[r].unlink = "none"
          /\ images' = images /\ files' = files
          /\ images'[reqs'[r].img].exists]_vars

\* A delete was refused with 403 and the record and its file are there.
C7_Witness ==
  /\ Answered("delete", X, 403) # {}
  /\ images[X].exists
  /\ FilePath(images[X].imageUrl) \in files

\* C8: once a Delete is answered 200, the record is not stored any more and,
\* unless removing the file failed, the file is not in uploads/ any more.
C8_DeleteFinished ==
  \A r \in Slots :
    (reqs[r].op = "delete" /\ reqs[r].pc = "done" /\ reqs[r].status = 200)
    => /\ ~images[reqs[r].img].exists
       /\ reqs[r].unlink # "error" => reqs[r].path \notin files

\* C9: of two Delete requests on X by its artist, the only deletes of X, once
\* both are answered one is answered 200 and the other 404.
C9_OneDeleteWins ==
  \A r1, r2 \in Slots :
    ( /\ r1 # r2
      /\ Arrived("delete", X) = {r1, r2}
      /\ reqs[r1].user = Owner(X) /\ reqs[r2].user = Owner(X)
      /\ reqs[r1].pc = "done" /\ reqs[r2].pc = "done" )
    => {reqs[r1].status, reqs[r2].status} = {200, 404}

\* The extension of the file is one of .jpeg .jpg .png .gif .webp (in either
\* case) and its declared content type is image/ followed by one of the five.
InAllowList(file) ==
  /\ \E w \in allowedTypes : toLowerCase(file.ext) = <<".", w>>
  /\ \E w \in allowedTypes : file.mimetype = <<"image/", w>>

\* C10: an upload with a file of a listed type within the size limit and a
\* title that is not empty is answered 201,
\* its record is stored with the uploader as artist and the uploader's
\* username, and its file is in uploads/.
C10_UploadSucceeds ==
  \A r \in Slots :
    ( /\ reqs[r].op = "upload" /\ reqs[r].pc = "done"
      /\ reqs[r].file # NoFile /\ InAllowList(reqs[r].file)
      /\ reqs[r].file.size <= fileSize /\ Trim(reqs[r].title) # "" )
    => /\ reqs[r].status = 201
       /\ images[reqs[r].img].exists
       /\ images[reqs[r].img].artist = reqs[r].user
       /\ images[reqs[r].img].artistUsername = Username(reqs[r].user)
       /\ reqs[r].path \in files

\* C11: an upload whose file is not of a listed type (extension and declared
\* content type) is refused with InvalidFileType, and neither a record nor a
\* file of it is ever stored.
C11_InvalidFileType ==
  \A r \in UploadSlots :
    ( /\ reqs[r].op = "upload" /\ reqs[r].file # NoFile
      /\ ~InAllowList(reqs[r].file) )
    => /\ reqs[r].pc = "done" /\ reqs[r].error = "InvalidFileType"
       /\ ~images[reqs[r].img].exists
       /\ ~reqs[r].hasFile

\* C12: once an upload whose save failed is answered, its file is not in
\* uploads/ any more, unless removing it failed.
C12_NoOrphanAfterError ==
  \A r \in UploadSlots :
    ( /\ reqs[r].op = "upload" /\ reqs[r].pc = "done"
      /\ reqs[r].hasFile /\ reqs[r].status = 500 )
    => (reqs[r].unlink # "error" => reqs[r].path \notin files)

\* C13: the likes list of every image holds each user id at most once.
C13_LikersUnique ==
  \A i \in AllImages :
    \A j, k \in 1..Len(images[i].likes) :
      images[i].likes[j] = images[i].likes[k] => j = k

\* C14: with Like, Unlike and detail fetches handled concurrently, whenever no
\* request on an image is between its read and its write, the likesCount of
\* the image equals the length of its likes list.
C14_CountIsLikesAtRest ==
  \A i \in Images :
    (\A r \in Slots : reqs[r].img = i => ~InFlight(r))
    => images[i].likesCount = Len(images[i].likes)

\* C17: no step lowers the view counter of a stored image.
C17_ViewsMonotonic ==
  [][\A i \in Images :
       (images[i].exists /\ images'[i].exists) => images'[i].views >= images[i].views]_vars

\* C18: a Delete of a stored image by its artist goes on to deleteOne, and
\* deleteOne removes the record and is answered 200 whether the file is there,
\* was already absent, or could not be removed.
C18_DeleteDespiteFile ==
  [][\A r \in Slots :
       /\ ( /\ reqs[r].pc = "idle" /\ reqs'[r].op = "delete"
            /\ images[reqs'[r].img].exists
            /\ images[reqs'[r].img].artist = reqs'[r].user )
          => reqs'[r].pc = "deleteOne"
       /\ ( /\ reqs[r].op = "delete" /\ reqs[r].pc = "deleteOne"
            /\ reqs'[r].pc = "done" )
          => /\ reqs'[r].status = 200
             /\ ~images'[reqs[r].img].exists]_vars

\* Removing the file failed before the delete was answered 200; the record is
\* gone and the file is left.
C18_Witness ==
  \E r \in Answered("delete", X, 200) :
    /\ reqs[r].unlink = "error"
    /\ reqs[r].path \in files
    /\ ~images[X].exists

\* C20: a record that is not stored is not stored after any step (no save of
\* a document read earlier brings it back), and a detail fetch of it is
\* answered 404.
C20_NoResurrection ==
  [][\A i \in Images :
       ~images[i].exists =>
         /\ ~images'[i].exists
         /\ \A r \in Slots :
              (reqs[r].pc = "idle" /\ reqs'[r].op = "view" /\ reqs'[r].img = i)
              => reqs'[r].pc = "done" /\ reqs'[r].status = 404]_vars

\* A like, unlike or fetch that read X before its delete saved after it and
\* failed, and a later fetch was answered 404.
C20_Witness ==
  /\ ~images[X].exists
  /\ \E r \in Slots :
       /\ reqs[r].op \in {"like", "unlike", "view"} /\ reqs[r].img = X
       /\ reqs[r].pc = "done" /\ reqs[r].status = 500
  /\ Answered("view", X, 404) # {}

\* The request the feed slot holds.
LastRead == reqs[FeedSlot]

\* The records of the list s are stored and no record is in it twice.
Distinct(s) ==
  /\ \A k \in 1..Len(s) : images[s[k]].exists
  /\ \A j, k \in 1..Len(s) : j # k => s[j] # s[k]

\* C15: for page >= 1 and limit >= 1 over a gallery of P records, Page
\* answers 200 with the page asked for and min(limit, max(0, P - (page-1)*limit)) different records,
\* newest first, with total = P and totalPages the least number of pages of
\* limit records that hold P records; a page past the last one is empty.
C15_Page ==
  LET q == LastRead
      P == Cardinality({i \in AllImages : images[i].exists})
      rest == P - (q.page - 1) * q.limit IN
  (q.op = "page" /\ q.pc = "done" /\ q.page >= 1 /\ q.limit >= 1) =>
    /\ q.status = 200
    /\ q.body = q.page
    /\ Len(q.result) = (IF rest <= 0 THEN 0
                        ELSE IF rest <= q.limit THEN rest ELSE q.limit)
    /\ Distinct(q.result)
    /\ \A j, k \in 1..Len(q.result) :
         j < k => images[q.result[j]].createdAt >= images[q.result[k]].createdAt
    /\ q.total = P
    /\ q.totalPages * q.limit >= P
    /\ (q.totalPages - 1) * q.limit < P

\* Page 2 of size 3 over 4 records holds 1 record, and totalPages is 2.
C15_Witness ==
  /\ LastRead.op = "page" /\ LastRead.pc = "done"
  /\ LastRead.page = 2 /\ LastRead.limit = 3
  /\ LastRead.total = 4 /\ Len(LastRead.result) = 1 /\ LastRead.totalPages = 2

\* C16: the random feed asked for count = N over P stored records answers
\* 200 with min(N, P) different records.
C16_RandomFeed ==
  LET q == LastRead
      P == Cardinality({i \in AllImages : images[i].exists}) IN
  q.op = "random" =>
    /\ q.pc = "done" /\ q.status = 200
    /\ Len(q.result) = (IF q.count <= P THEN q.count ELSE P)
    /\ Distinct(q.result)

\* What a step leaves of the record i when it may change the paths in paths.
Only(i, paths) ==
  /\ images'[i].exists = images[i].exists
  /\ images'[i].title = images[i].title
  /\ images'[i].imageUrl = images[i].imageUrl
  /\ images'[i].cloudinaryId = images[i].cloudinaryId
  /\ images'[i].artist = images[i].artist
  /\ images'[i].artistUsername = images[i].artistUsername
  /\ images'[i].createdAt = images[i].createdAt
  /\ "likes" \in paths \/ images'[i].likes = images[i].likes
  /\ "likesCount" \in paths \/ images'[i].likesCount = images[i].likesCount
  /\ "views" \in paths \/ images'[i].views = images[i].views

\* C19: a step of a like or an unlike changes only likes and likesCount of
\* the record it names (and the version key __v that save() keeps), a step of
\* a detail fetch changes only its views, a step of random, page, user feed
\* or /:id/liked changes no record and no file; so artist, artistUsername and
\* imageUrl of a stored record stay what they were.
C19_Frame ==
  [][\A r \in Slots \cup {FeedSlot} :
       reqs'[r] # reqs[r] =>
         /\ reqs'[r].op \in {"like", "unlike"} =>
              /\ \A i \in AllImages :
                   IF i = reqs'[r].img THEN Only(i, {"likes", "likesCount"})
                   ELSE images'[i] = images[i]
              /\ files' = files
         /\ reqs'[r].op = "view" =>
              /\ \A i \in AllImages :
                   IF i = reqs'[r].img THEN Only(i, {"views"}) /\ images'[i].v = images[i].v
                   ELSE images'[i] = images[i]
              /\ files' = files
         /\ reqs'[r].op \in {"random", "page", "user", "liked"} =>
              images' = images /\ files' = files]_vars

\* X was liked and fetched, both saved, and /:id/liked then answered true.
C19_Witness ==
  /\ images[X].likesCount = 1 /\ images[X].views = 1
  /\ images[X].artist = Owner(X) /\ images[X].imageUrl = ImageUrl(X)
  /\ LastRead.op = "liked" /\ LastRead.liked

====
